---- MODULE Spec2Model ----
(***************************************************************************)
(* Model of the Kotlin/Native managed-heap substrate:                      *)
(*   - mm::internal::ObjectFactoryStorage (ObjectFactory.hpp): the global  *)
(*     registry, the per-thread Producer queues, the Consumer (finalizer)  *)
(*     queues and the locked Iterable with EraseAndAdvance/MoveAndAdvance; *)
(*   - gc::ConcurrentMarkAndSweep (ConcurrentMarkAndSweep.hpp): the object *)
(*     colour and the collector cycle.                                     *)
(* Chains are modelled at pointer level: a heap map next_ from node to its *)
(* successor, and per chain the fields root_, last_ and size_.             *)
(***************************************************************************)
EXTENDS Integers, Sequences, FiniteSets, TLC

\* Number of nodes the allocator can hand out in one run.
MaxNodes == 3

\* nullptr
Null == 0

Nodes == 1..MaxNodes

NodePtr == Nodes \cup {Null}

\* Mutator threads, each owning one Producer.
Mutators == {"m1", "m2"}

\* Consumers: the queue a sweep fills, and the finalizer processor's queue.
Consumers == {"sweepQueue", "finalizerQueue_"}

VARIABLES
    next_,      \* Node::next_ of every node
    nodeState,  \* "unallocated" | "live" | "freed" per node
    storage,    \* ObjectFactoryStorage: root_, last_, size_
    mutex_,     \* ObjectFactoryStorage::mutex_: "free" or its holder
    producer,   \* Producer per mutator: root_, last_, size_
    pcP,        \* where each mutator is inside Producer::Publish
    consumer,   \* Consumer per consumer name: root_, last_, size_
    iter,       \* ObjectFactoryStorage::Iterator: previousNode_, node_
    handles,    \* number of Iterable objects alive (each holds guard_)
    pubPre,     \* history: the two chains Publish found when it took the lock, or MergeWith when called
    lastOp,     \* history: the name of the last storage operation
    passLog,    \* history: the iteration pass since the last begin()
    color,      \* ObjectData::color_ of the object in every node
    roots,      \* the root set: objects referenced from stacks and globals
    field,      \* the child reference of every object (what trace reports)
    phase,      \* where the collector thread is in its cycle
    suspendFlag, \* the global suspend request
    mstate,     \* per mutator: "running" | "parked" | "waiting"
    currentEpoch,  \* GC state holder: the last epoch requested
    startedEpoch,  \* GC state holder: the last epoch started
    finishedEpoch, \* GC state holder: the last epoch finished
    gcEpoch,    \* the epoch the collector is working on
    obtained,   \* per mutator: the epoch its last ScheduleAndWaitFullGC got
    gcLog,      \* history of the current cycle
    fp,         \* FinalizerProcessor: thread, pending queue, epoch, flags
    address,    \* the address the allocator gave to every node
    header,     \* the ObjHeader* / ArrayHeader* returned for every node
    req,        \* the last array size computation: element size, count, result
    cpu         \* the last Konan_Platform_availableProcessors call: branch, answers, result

coreVars == <<next_, nodeState, storage, mutex_, producer, pcP, consumer, iter, handles>>

histVars == <<pubPre, lastOp, passLog>>

storageVars == <<coreVars, histVars>>

gcVars == <<color, roots, field, phase, suspendFlag, mstate, currentEpoch, startedEpoch,
            finishedEpoch, gcEpoch, obtained, gcLog>>

finVars == <<fp>>

refVars == <<address, header>>

sizeVars == <<req>>

cpuVars == <<cpu>>

vars == <<storageVars, gcVars, finVars, refVars, sizeVars, cpuVars>>

----------------------------------------------------------------------------
(* Chains *)

EmptyChain == [root_ |-> Null, last_ |-> Null, size_ |-> 0]

\* The nodes reached from n by following nx, at most fuel of them.
RECURSIVE Walk(_, _, _)
Walk(nx, n, fuel) ==
    IF n = Null \/ fuel = 0 THEN <<>> ELSE <<n>> \o Walk(nx, nx[n], fuel - 1)

\* Forward iteration from root_ (begin() .. end() with operator++).
ChainSeq(q, nx) == Walk(nx, q.root_, MaxNodes + 1)

SeqSet(s) == {s[i] : i \in 1..Len(s)}

ChainNodes(q, nx) == SeqSet(ChainSeq(q, nx))

\* The sequence s without the element n.
Without(s, n) == SelectSeq(s, LAMBDA x : x # n)

\* s restricted to the elements of S, order kept.
Restrict(s, S) == SelectSeq(s, LAMBDA x : x \in S)

----------------------------------------------------------------------------
(* Node *)

----------------------------------------------------------------------------
(* Node layout: a node is a block [Node | padding | data], its data a heap  *)
(* header [ObjectData | padding | ObjHeader or ArrayHeader | body].         *)

AlignUp(size, alignment) == ((size + alignment - 1) \div alignment) * alignment

\* alignof/sizeof on the 64-bit targets: DataAlignment = kObjectAlignment,
\* Node holds one pointer, ObjectData one Color, ObjHeader one pointer,
\* ArrayHeader one pointer and a 32-bit count.
kObjectAlignment == 8
SizeofNode == 8
SizeofObjectData == 4
SizeofObjHeader == 8
SizeofArrayHeader == 16

\* Node::DataOffset
DataOffset == AlignUp(SizeofNode, kObjectAlignment)

\* Node::FromData that takes the data for the node.
NodeFromDataNoOffset(data) == data

\* Node::FromData
NodeFromData(data) == data - DataOffset

\* Node::Data
NodeData(node) == node + DataOffset

\* offsetof(HeapObjHeader, object), offsetof(HeapArrayHeader, array)
OffsetofObject == AlignUp(SizeofObjectData, kObjectAlignment)
OffsetofArray == AlignUp(SizeofObjectData, kObjectAlignment)

SizeofHeapObjHeader == AlignUp(OffsetofObject + SizeofObjHeader, kObjectAlignment)
SizeofHeapArrayHeader == AlignUp(OffsetofArray + SizeofArrayHeader, kObjectAlignment)

\* &heapObject->object and &heapArray->array of the header built at data.
HeapObject(data) == data + OffsetofObject
HeapArray(data) == data + OffsetofArray

\* NodeRef::From(ObjHeader*), NodeRef::From(ArrayHeader*): the node referred to.
NodeRefFromObject(object) == NodeFromData(object - OffsetofObject)
NodeRefFromArray(array) == NodeFromData(array - OffsetofArray)

\* NodeRef::GetObjHeader, NodeRef::GetArrayHeader
GetObjHeader(node) == HeapObject(NodeData(node))
GetArrayHeader(node) == HeapArray(NodeData(node))

\* Node::GetSizeAndAlignmentForDataSize(dataSize).first
NodeTotalSize(dataSize) ==
    AlignUp(SizeofNode + AlignUp(dataSize, kObjectAlignment), kObjectAlignment)

\* The allocator: blocks of one size, large enough for either header, handed
\* out in address order and never twice.
HeapBase == 64
BlockSize == NodeTotalSize(SizeofHeapArrayHeader)
Alloc(ns) == HeapBase + BlockSize * Cardinality({k \in Nodes : ns[k] # "unallocated"})

----------------------------------------------------------------------------
(* Array sizes. A size is written hi * 2^16 + lo with 0 <= lo < 2^16, so    *)
(* that 32-bit counts and their products with an element size are exact.   *)

Limb == 65536

Wide(hi, lo) == [hi |-> hi + lo \div Limb, lo |-> lo % Limb]

\* uint32_t * uint32_t in unbounded arithmetic, for an element size below 2^15.
Times(s, count) == Wide(s * count.hi, s * count.lo)

\* Conversion to uint32_t: the value modulo 2^32.
ToUint32(w) == [hi |-> w.hi % Limb, lo |-> w.lo]

\* sizeof(HeapArrayHeader) + membersSize and AlignUp of it, in size_t.
PlusSmall(w, k) == Wide(w.hi, w.lo + k)
AlignUpWide(w, alignment) == Wide(w.hi, AlignUp(w.lo, alignment))

\* The size with the product of element size and count taken exactly.
ExactArrayDataSize(instanceSize, count) ==
    AlignUpWide(PlusSmall(Times(-instanceSize, count), SizeofHeapArrayHeader), kObjectAlignment)

\* ThreadQueue::ArrayAllocatedDataSize: membersSize is a uint32_t product.
ArrayAllocatedDataSize(instanceSize, count) ==
    LET membersSize == ToUint32(Times(-instanceSize, count))
    IN  AlignUpWide(PlusSmall(membersSize, SizeofHeapArrayHeader), kObjectAlignment)

\* TypeInfo::instanceSize_ of the array types: minus the element size.
ArrayInstanceSizes == {-1, -2, -4, -8}

\* Element counts: every pair of the halves below.
CountHi == {0, 1, 8191, 8192, 16384, 32768, 65535}
CountLo == {0, 1, 7, 65535}
Counts == {[hi |-> h, lo |-> l] : h \in CountHi, l \in CountLo}

NoRequest == [instanceSize |-> 0, count |-> Wide(0, 0), allocSize |-> Wide(0, 0)]

SizeInit == req = NoRequest

\* CreateArray up to the size it asks Insert for.
ArraySizeRequest(instanceSize, count) ==
    /\ req' = [instanceSize |-> instanceSize, count |-> count,
               allocSize |-> ArrayAllocatedDataSize(instanceSize, count)]
    /\ UNCHANGED <<storageVars, gcVars, finVars, refVars, cpuVars>>

----------------------------------------------------------------------------
(* Konan_Platform_availableProcessors. The answers of the platform are     *)
(* inputs: std::thread::hardware_concurrency(), GetProcessAffinityMask and  *)
(* the return values of sched_setaffinity. An affinity mask is a number of  *)
(* MaskBits bits.                                                           *)

MaskBits == 3

RECURSIVE Pow2(_)
Pow2(k) == IF k = 0 THEN 1 ELSE 2 * Pow2(k - 1)

Masks == 0..(Pow2(MaskBits) - 1)

\* __builtin_popcountll
RECURSIVE PopCount(_)
PopCount(x) == IF x = 0 THEN 0 ELSE (x % 2) + PopCount(x \div 2)

Bit(x, i) == (x \div Pow2(i)) % 2

\* GetProcessAffinityMask: the process mask is a subset of the system mask.
SubMask(a, b) == \A i \in 0..(MaskBits - 1) : Bit(a, i) <= Bit(b, i)

\* std::thread::hardware_concurrency() is unsigned; (hi, lo) as in Wide.
HardwareConcurrency ==
    {Wide(0, 0), Wide(0, 1), Wide(0, 2), Wide(0, 8), Wide(1, 0), Wide(32767, 65535),
     Wide(32768, 0), Wide(65535, 65535)}

\* static_cast<int> of an unsigned 32-bit value.
ToInt(w) == IF w.hi >= 32768 THEN (w.hi - Limb) * Limb + w.lo ELSE w.hi * Limb + w.lo

availableProcessorsFallback(hc) ==
    LET result == ToInt(hc)
    IN  IF result <= 0 THEN 1 ELSE result

\* KONAN_WINDOWS: ok is GetProcessAffinityMask(...) = TRUE. The value
\* returned is the population count of the system affinity mask.
WindowsAvailableProcessors(ok, lpProcessAffinityMask, lpSystemAffinityMask, hc) ==
    IF ~ok THEN availableProcessorsFallback(hc)
    ELSE IF lpProcessAffinityMask = 0 THEN availableProcessorsFallback(hc)
    ELSE PopCount(lpSystemAffinityMask)

\* KONAN_LINUX: set is zeroed by CPU_ZERO and passed to sched_setaffinity,
\* which does not write it; CPU_COUNT(set) and CPU_COUNT_S(set, cpus) count
\* the zeroed set.
EmptyCpuSet == 0
MAX_CPUS == 65536

\* The loop of lines 60-68: try counts the calls, succeedAt is the call of
\* the loop that returns 0 (none if it is 0).
RECURSIVE AffinityLoop(_, _, _, _)
AffinityLoop(result, cpus, try, succeedAt) ==
    IF result = -1 /\ cpus <= MAX_CPUS
    THEN AffinityLoop(IF try = succeedAt THEN PopCount(EmptyCpuSet) ELSE -1,
                      cpus * 2, try + 1, succeedAt)
    ELSE result

\* first is the value of the first sched_setaffinity call.
LinuxAvailableProcessors(first, succeedAt, hc) ==
    IF first = 0 THEN PopCount(EmptyCpuSet)
    ELSE LET result == AffinityLoop(-1, availableProcessorsFallback(hc), 1, succeedAt)
         IN  IF result # -1 THEN result ELSE availableProcessorsFallback(hc)

\* The calls of the loop that may succeed: at most 17, cpus doubling from 1.
LoopCalls == 0..17

NoCall == [platform |-> "none", ok |-> FALSE, processMask |-> 0, systemMask |-> 0,
           first |-> 0, succeedAt |-> 0, hc |-> Wide(0, 0), result |-> 0]

CpuInit == cpu = NoCall

\* KONAN_NO_THREADS
CallNoThreads ==
    /\ cpu' = [NoCall EXCEPT !.platform = "KONAN_NO_THREADS", !.result = 1]
    /\ UNCHANGED <<storageVars, gcVars, finVars, refVars, sizeVars>>

CallWindows(ok, pm, sm, hc) ==
    /\ ok => SubMask(pm, sm)
    /\ ~ok => (pm = 0 /\ sm = 0)
    /\ cpu' = [NoCall EXCEPT !.platform = "KONAN_WINDOWS", !.ok = ok, !.processMask = pm,
                             !.systemMask = sm, !.hc = hc,
                             !.result = WindowsAvailableProcessors(ok, pm, sm, hc)]
    /\ UNCHANGED <<storageVars, gcVars, finVars, refVars, sizeVars>>

CallLinux(first, succeedAt, hc) ==
    /\ first = 0 => succeedAt = 0
    /\ cpu' = [NoCall EXCEPT !.platform = "KONAN_LINUX", !.first = first,
                             !.succeedAt = succeedAt, !.hc = hc,
                             !.result = LinuxAvailableProcessors(first, succeedAt, hc)]
    /\ UNCHANGED <<storageVars, gcVars, finVars, refVars, sizeVars>>

\* Every other target.
CallOther(hc) ==
    /\ cpu' = [NoCall EXCEPT !.platform = "other", !.hc = hc,
                             !.result = availableProcessorsFallback(hc)]
    /\ UNCHANGED <<storageVars, gcVars, finVars, refVars, sizeVars>>

NoHeader == [ptr |-> Null, isArray |-> FALSE]

RefInit ==
    /\ address = [n \in Nodes |-> Null]
    /\ header = [n \in Nodes |-> NoHeader]

\* Node::Create: a fresh node, next_ == nullptr. The allocator hands out the
\* lowest address not yet used; an address is never handed out twice.
FreshNode(ns) == CHOOSE n \in Nodes : ns[n] = "unallocated" /\ \A k \in Nodes : ns[k] = "unallocated" => n <= k

----------------------------------------------------------------------------
(* Pure translations of the chain operations.  Each takes the chain(s) it  *)
(* works on and the heap map nx and returns the updated values.            *)

\* Producer::Insert(dataSize), for the node n that Node::Create returned.
ProducerInsert(q, nx, n) ==
    [q  |-> [root_ |-> IF q.root_ = Null THEN n ELSE q.root_,
             last_ |-> n,
             size_ |-> q.size_ + 1],
     nx |-> IF q.root_ = Null THEN nx ELSE [nx EXCEPT ![q.last_] = n]]

\* Producer::Publish, the splice: owner_.root_ or owner_.last_->next_ takes
\* the producer's root_ (a unique_ptr move, which leaves root_ null).
PublishSplice(owner, q, nx) ==
    [owner |-> IF owner.root_ = Null THEN [owner EXCEPT !.root_ = q.root_] ELSE owner,
     q     |-> [q EXCEPT !.root_ = Null],
     nx    |-> IF owner.root_ = Null THEN nx ELSE [nx EXCEPT ![owner.last_] = q.root_]]

\* Publish that forgets owner_.last_ = last_.
PublishUpdateKeepsLast(owner, q) ==
    [owner |-> [owner EXCEPT !.size_ = owner.size_ + q.size_],
     q     |-> [q EXCEPT !.last_ = Null, !.size_ = 0]]

\* Producer::Publish, the bookkeeping after the splice.
PublishUpdate(owner, q) ==
    [owner |-> [owner EXCEPT !.last_ = q.last_, !.size_ = owner.size_ + q.size_],
     q     |-> [q EXCEPT !.last_ = Null, !.size_ = 0]]

\* Consumer::Insert that links the node in front of root_.
ConsumerInsertAtHead(c, nx, n) ==
    [c  |-> [root_ |-> n,
             last_ |-> IF c.root_ = Null THEN n ELSE c.last_,
             size_ |-> c.size_ + 1],
     nx |-> [nx EXCEPT ![n] = c.root_]]

\* Consumer::Insert that forgets last_->next_ = std::move(node).
ConsumerInsertUnlinked(c, nx, n) ==
    [c  |-> [root_ |-> IF c.root_ = Null THEN n ELSE c.root_,
             last_ |-> n,
             size_ |-> c.size_ + 1],
     nx |-> nx]

\* Consumer::Insert(unique_ptr<Node> node)
ConsumerInsert(c, nx, n) ==
    [c  |-> [root_ |-> IF c.root_ = Null THEN n ELSE c.root_,
             last_ |-> n,
             size_ |-> c.size_ + 1],
     nx |-> IF c.root_ = Null THEN nx ELSE [nx EXCEPT ![c.last_] = n]]

\* MergeWith that assigns last_ and size_ also when other is empty.
MergeWithOverwrites(c, other, nx) ==
    [c     |-> [root_ |-> IF c.root_ = Null THEN other.root_ ELSE c.root_,
                last_ |-> other.last_,
                size_ |-> c.size_ + other.size_],
     other |-> EmptyChain,
     nx    |-> IF c.root_ = Null \/ other.root_ = Null THEN nx
               ELSE [nx EXCEPT ![c.last_] = other.root_]]

\* A move constructor that leaves other.last_ as it was.
ConsumerMoveKeepsLast(other) ==
    [c |-> other, other |-> [root_ |-> Null, last_ |-> other.last_, size_ |-> 0]]

\* Consumer(Consumer&& other): the new consumer and what is left of other.
ConsumerMove(other) ==
    [c     |-> [root_ |-> other.root_, last_ |-> other.last_, size_ |-> other.size_],
     other |-> [root_ |-> Null, last_ |-> Null, size_ |-> 0]]

\* Consumer::MergeWith(Consumer&& other)
MergeWith(c, other, nx) ==
    IF other.root_ # Null
    THEN [c     |-> [root_ |-> IF c.root_ = Null THEN other.root_ ELSE c.root_,
                     last_ |-> other.last_,
                     size_ |-> c.size_ + other.size_],
          other |-> EmptyChain,
          nx    |-> IF c.root_ = Null THEN nx ELSE [nx EXCEPT ![c.last_] = other.root_]]
    ELSE [c |-> c, other |-> other, nx |-> nx]

\* ExtractUnsafe that ignores previousNode and always extracts the root.
ExtractUnsafeRootOnly(st, nx, previousNode) ==
    LET node == st.root_
        newRoot == nx[node]
    IN  [st     |-> [root_ |-> newRoot,
                     last_ |-> IF newRoot = Null THEN Null ELSE st.last_,
                     size_ |-> st.size_ - 1],
         nx     |-> [nx EXCEPT ![node] = Null],
         first  |-> node,
         second |-> newRoot]

\* ExtractUnsafe that forgets to move last_ back when the tail is extracted.
ExtractUnsafeStaleLast(st, nx, previousNode) ==
    IF previousNode = Null
    THEN LET node == st.root_
             newRoot == nx[node]
         IN  [st     |-> [root_ |-> newRoot,
                          last_ |-> IF newRoot = Null THEN Null ELSE st.last_,
                          size_ |-> st.size_ - 1],
              nx     |-> [nx EXCEPT ![node] = Null],
              first  |-> node,
              second |-> newRoot]
    ELSE LET node == nx[previousNode]
             after == nx[node]
         IN  [st     |-> [root_ |-> st.root_,
                          last_ |-> st.last_,
                          size_ |-> st.size_ - 1],
              nx     |-> [nx EXCEPT ![previousNode] = after, ![node] = Null],
              first  |-> node,
              second |-> after]

\* ObjectFactoryStorage::ExtractUnsafe(previousNode): first is the extracted
\* node (its next_ moved out, so null), second the node now following
\* previousNode.
ExtractUnsafe(st, nx, previousNode) ==
    IF previousNode = Null
    THEN LET node == st.root_
             newRoot == nx[node]
         IN  [st     |-> [root_ |-> newRoot,
                          last_ |-> IF newRoot = Null THEN Null ELSE st.last_,
                          size_ |-> st.size_ - 1],
              nx     |-> [nx EXCEPT ![node] = Null],
              first  |-> node,
              second |-> newRoot]
    ELSE LET node == nx[previousNode]
             after == nx[node]
         IN  [st     |-> [root_ |-> st.root_,
                          last_ |-> IF after = Null THEN previousNode ELSE st.last_,
                          size_ |-> st.size_ - 1],
              nx     |-> [nx EXCEPT ![previousNode] = after, ![node] = Null],
              first  |-> node,
              second |-> after]

\* Iterable::begin()
IterableBegin(st) == [previousNode_ |-> Null, node_ |-> st.root_, live |-> TRUE]

\* operator++ that steps node_ and leaves previousNode_ behind.
IteratorIncKeepsPrevious(it, nx) == [it EXCEPT !.node_ = nx[it.node_]]

\* Iterator::operator++
IteratorInc(it, nx) == [it EXCEPT !.previousNode_ = it.node_, !.node_ = nx[it.node_]]

\* No iterator exists.
NoIterator == [previousNode_ |-> Null, node_ |-> Null, live |-> FALSE]

NoOp == "none"

NoPublish == [R |-> <<>>, P |-> <<>>]

\* No pass is under way.
NoPass ==
    [on |-> FALSE, start |-> <<>>, moved |-> <<>>, erased |-> {}, base |-> <<>>, ok |-> FALSE]

----------------------------------------------------------------------------
(* Collector state *)

\* Number of epochs that may be requested in one run.
MaxEpoch == 3

\* Number of objects the mutators create in one run of the collector model.
MaxObjects == 2

\* A new object that starts BLACK.
InitialColorBlack == "kBlack"

\* ObjectData::color_ = Color::kWhite, the colour of a new object.
InitialColor == "kWhite"

\* ObjectData::setColor
setColor(col, n, c) == [col EXCEPT ![n] = c]

EmptyLog ==
    [reach |-> {}, unpublished |-> {}, white |-> {}, snapshot |-> {}, visited |-> {},
     moved |-> [n \in Nodes |-> 0]]

GCInit ==
    /\ color = [n \in Nodes |-> InitialColor]
    /\ roots = {}
    /\ field = [n \in Nodes |-> Null]
    /\ phase = "idle"
    /\ suspendFlag = FALSE
    /\ mstate = [m \in Mutators |-> "running"]
    /\ currentEpoch = 0
    /\ startedEpoch = 0
    /\ finishedEpoch = 0
    /\ gcEpoch = 0
    /\ obtained = [m \in Mutators |-> 0]
    /\ gcLog = EmptyLog

\* Number of nodes one swept queue hands to the finalizer processor.
MaxBatch == 2

\* FinalizerProcessor after construction: no thread, an empty queue,
\* finalizerQueueEpoch_ = 0, shutdownFlag_ = false, newTasksAllowed_ = true.
\* stop follows a StopFinalizerThread call; done is the epoch of the last
\* epochDoneCallback; handed, accepted, acceptedFull, finalized and
\* droppedAfterStop are history.
FinInit ==
    fp = [thread |-> "none", queue |-> 0, taken |-> 0, queueEpoch |-> 0,
          newTasksAllowed |-> TRUE, shutdownFlag |-> FALSE, stop |-> "no", done |-> 0,
          handed |-> 0, accepted |-> 0, acceptedFull |-> 0, finalized |-> 0,
          droppedAfterStop |-> FALSE]

----------------------------------------------------------------------------
(* The storage: producers insert and publish, one thread at a time holds   *)
(* the Iterable returned by LockForIter and erases or moves nodes.         *)

StorageInit ==
    /\ next_ = [n \in Nodes |-> Null]
    /\ nodeState = [n \in Nodes |-> "unallocated"]
    /\ storage = EmptyChain
    /\ mutex_ = "free"
    /\ producer = [m \in Mutators |-> EmptyChain]
    /\ pcP = [m \in Mutators |-> "idle"]
    /\ consumer = [c \in Consumers |-> EmptyChain]
    /\ iter = NoIterator
    /\ handles = 0
    /\ pubPre = NoPublish
    /\ lastOp = NoOp
    /\ passLog = NoPass

\* Insert that waits for the registry lock to be free.
InsertUnderLock(m) ==
    /\ pcP[m] = "idle"
    /\ mutex_ = "free"
    /\ \E k \in Nodes : nodeState[k] = "unallocated"
    /\ LET n == FreshNode(nodeState)
           r == ProducerInsert(producer[m], next_, n)
       IN  /\ nodeState' = [nodeState EXCEPT ![n] = "live"]
           /\ address' = [address EXCEPT ![n] = Alloc(nodeState)]
           /\ producer' = [producer EXCEPT ![m] = r.q]
           /\ next_' = r.nx
    /\ UNCHANGED <<storage, mutex_, pcP, consumer, iter, handles>>

\* Producer::Insert
Insert(m) ==
    /\ pcP[m] = "idle"
    /\ \E k \in Nodes : nodeState[k] = "unallocated"
    /\ LET n == FreshNode(nodeState)
           r == ProducerInsert(producer[m], next_, n)
       IN  /\ nodeState' = [nodeState EXCEPT ![n] = "live"]
           /\ address' = [address EXCEPT ![n] = Alloc(nodeState)]
           /\ producer' = [producer EXCEPT ![m] = r.q]
           /\ next_' = r.nx
    /\ UNCHANGED <<storage, mutex_, pcP, consumer, iter, handles>>

\* Publish that takes the lock before it looks at root_.
PublishEmptyTakesLock(m) ==
    /\ pcP[m] = "idle"
    /\ producer[m].root_ = Null
    /\ mutex_ = "free"
    /\ UNCHANGED <<next_, nodeState, storage, mutex_, producer, pcP, consumer, iter, handles>>

\* Producer::Publish on an empty producer: returns before taking the lock.
PublishEmpty(m) ==
    /\ pcP[m] = "idle"
    /\ producer[m].root_ = Null
    /\ UNCHANGED <<next_, nodeState, storage, mutex_, producer, pcP, consumer, iter, handles>>

\* Publish that does not wait for mutex_.
PublishLockNoWait(m) ==
    /\ pcP[m] = "idle"
    /\ producer[m].root_ # Null
    /\ mutex_' = m
    /\ pcP' = [pcP EXCEPT ![m] = "locked"]
    /\ UNCHANGED <<next_, nodeState, storage, producer, consumer, iter, handles>>

\* Producer::Publish: std::lock_guard guard(owner_.mutex_) once it is free.
PublishLock(m) ==
    /\ pcP[m] = "idle"
    /\ producer[m].root_ # Null
    /\ mutex_ = "free"
    /\ mutex_' = m
    /\ pcP' = [pcP EXCEPT ![m] = "locked"]
    /\ UNCHANGED <<next_, nodeState, storage, producer, consumer, iter, handles>>

\* Producer::Publish: the splice of root_.
PublishDoSplice(m) ==
    /\ pcP[m] = "locked"
    /\ LET r == PublishSplice(storage, producer[m], next_)
       IN  /\ storage' = r.owner
           /\ producer' = [producer EXCEPT ![m] = r.q]
           /\ next_' = r.nx
    /\ pcP' = [pcP EXCEPT ![m] = "spliced"]
    /\ UNCHANGED <<nodeState, mutex_, consumer, iter, handles>>

\* Producer::Publish: last_ and size_, then the guard releases the lock.
PublishFinish(m) ==
    /\ pcP[m] = "spliced"
    /\ LET r == PublishUpdate(storage, producer[m])
       IN  /\ storage' = r.owner
           /\ producer' = [producer EXCEPT ![m] = r.q]
    /\ pcP' = [pcP EXCEPT ![m] = "idle"]
    /\ mutex_' = "free"
    /\ UNCHANGED <<next_, nodeState, consumer, iter, handles>>

\* ~Producer of an empty producer: its Publish returns at once.
DtorEmpty(m) ==
    /\ pcP[m] = "idle"
    /\ producer[m].root_ = Null
    /\ pcP' = [pcP EXCEPT ![m] = "dead"]
    /\ UNCHANGED <<next_, nodeState, storage, mutex_, producer, consumer, iter, handles>>

\* A destructor that publishes nothing: root_ dies with the producer and its
\* nodes are freed.
DtorNoPublish(m) ==
    /\ pcP[m] = "idle"
    /\ producer[m].root_ # Null
    /\ LET dead == ChainNodes(producer[m], next_)
       IN  /\ nodeState' = [n \in Nodes |-> IF n \in dead THEN "freed" ELSE nodeState[n]]
           /\ next_' = [n \in Nodes |-> IF n \in dead THEN Null ELSE next_[n]]
    /\ producer' = [producer EXCEPT ![m] = EmptyChain]
    /\ pcP' = [pcP EXCEPT ![m] = "dead"]
    /\ UNCHANGED <<storage, mutex_, consumer, iter, handles>>

\* ~Producer() { Publish(); } of a non-empty producer: the lock_guard.
DtorLock(m) ==
    /\ pcP[m] = "idle"
    /\ producer[m].root_ # Null
    /\ mutex_ = "free"
    /\ mutex_' = m
    /\ pcP' = [pcP EXCEPT ![m] = "dtorLocked"]
    /\ UNCHANGED <<next_, nodeState, storage, producer, consumer, iter, handles>>

\* ~Producer: the splice of its Publish.
DtorSplice(m) ==
    /\ pcP[m] = "dtorLocked"
    /\ LET r == PublishSplice(storage, producer[m], next_)
       IN  /\ storage' = r.owner
           /\ producer' = [producer EXCEPT ![m] = r.q]
           /\ next_' = r.nx
    /\ pcP' = [pcP EXCEPT ![m] = "dtorSpliced"]
    /\ UNCHANGED <<nodeState, mutex_, consumer, iter, handles>>

\* ~Producer: last_ and size_, the lock is released, the producer is gone.
DtorFinish(m) ==
    /\ pcP[m] = "dtorSpliced"
    /\ LET r == PublishUpdate(storage, producer[m])
       IN  /\ storage' = r.owner
           /\ producer' = [producer EXCEPT ![m] = r.q]
    /\ pcP' = [pcP EXCEPT ![m] = "dead"]
    /\ mutex_' = "free"
    /\ UNCHANGED <<next_, nodeState, consumer, iter, handles>>

\* Producer(owner, allocator): a new thread takes the place of a dead one.
NewProducer(m) ==
    /\ pcP[m] = "dead"
    /\ pcP' = [pcP EXCEPT ![m] = "idle"]
    /\ UNCHANGED <<next_, nodeState, storage, mutex_, producer, consumer, iter, handles>>

\* ObjectFactoryStorage::LockForIter: the Iterable takes mutex_.
LockForIter ==
    /\ mutex_ = "free"
    /\ mutex_' = "iter"
    /\ handles' = handles + 1
    /\ iter' = NoIterator
    /\ UNCHANGED <<next_, nodeState, storage, producer, pcP, consumer>>

\* Iterable::begin
Begin ==
    /\ handles > 0
    /\ iter' = IterableBegin(storage)
    /\ UNCHANGED <<next_, nodeState, storage, mutex_, handles, producer, pcP, consumer>>

\* Iterator::operator++ on an iterator that is not at end()
Inc ==
    /\ iter.live
    /\ iter.node_ # Null
    /\ iter' = IteratorInc(iter, next_)
    /\ UNCHANGED <<next_, nodeState, storage, mutex_, handles, producer, pcP, consumer>>

\* EraseAndAdvance that steps previousNode_ as operator++ does.
EraseAndAdvanceStepsPrevious ==
    /\ iter.live
    /\ iter.node_ # Null
    /\ LET result == ExtractUnsafe(storage, next_, iter.previousNode_)
       IN  /\ storage' = result.st
           /\ next_' = result.nx
           /\ iter' = [iter EXCEPT !.previousNode_ = iter.node_, !.node_ = result.second]
           /\ nodeState' = [nodeState EXCEPT ![result.first] = "freed"]
    /\ UNCHANGED <<mutex_, handles, producer, pcP, consumer>>

\* Iterable::EraseAndAdvance: the extracted node's unique_ptr dies with the
\* call, which frees the node.
EraseAndAdvance ==
    /\ iter.live
    /\ iter.node_ # Null
    /\ LET result == ExtractUnsafe(storage, next_, iter.previousNode_)
       IN  /\ storage' = result.st
           /\ next_' = result.nx
           /\ iter' = [iter EXCEPT !.node_ = result.second]
           /\ nodeState' = [nodeState EXCEPT ![result.first] = "freed"]
    /\ UNCHANGED <<mutex_, handles, producer, pcP, consumer>>

\* Iterable::MoveAndAdvance(consumer, iterator)
MoveAndAdvance(c) ==
    /\ iter.live
    /\ iter.node_ # Null
    /\ LET result == ExtractUnsafe(storage, next_, iter.previousNode_)
           r == ConsumerInsert(consumer[c], result.nx, result.first)
       IN  /\ storage' = result.st
           /\ iter' = [iter EXCEPT !.node_ = result.second]
           /\ consumer' = [consumer EXCEPT ![c] = r.c]
           /\ next_' = r.nx
    /\ UNCHANGED <<nodeState, mutex_, handles, producer, pcP>>

\* ~Iterable: guard_ releases mutex_; the iterators die with it.
ReleaseIter ==
    /\ handles > 0
    /\ mutex_' = "free"
    /\ handles' = handles - 1
    /\ iter' = NoIterator
    /\ UNCHANGED <<next_, nodeState, storage, producer, pcP, consumer>>

\* FinalizerQueue::MergeWith: finalizerQueue_ takes the nodes of a swept queue.
Merge ==
    /\ LET r == MergeWith(consumer["finalizerQueue_"], consumer["sweepQueue"], next_)
       IN  /\ consumer' = [consumer EXCEPT !["finalizerQueue_"] = r.c, !["sweepQueue"] = r.other]
           /\ next_' = r.nx
    /\ UNCHANGED <<nodeState, storage, mutex_, producer, pcP, iter, handles>>

\* ~Consumer: walks the chain and frees every node; a default-constructed
\* consumer takes its place.
DestroyConsumer(c) ==
    /\ consumer[c].root_ # Null
    /\ LET dead == ChainNodes(consumer[c], next_)
       IN  /\ nodeState' = [n \in Nodes |-> IF n \in dead THEN "freed" ELSE nodeState[n]]
           /\ next_' = [n \in Nodes |-> IF n \in dead THEN Null ELSE next_[n]]
    /\ consumer' = [consumer EXCEPT ![c] = EmptyChain]
    /\ UNCHANGED <<storage, mutex_, producer, pcP, iter, handles>>

\* dst.MergeWith(std::move(src)) for any two consumers.
MergeInto(dst, src) ==
    /\ dst # src
    /\ LET r == MergeWith(consumer[dst], consumer[src], next_)
       IN  /\ consumer' = [consumer EXCEPT ![dst] = r.c, ![src] = r.other]
           /\ next_' = r.nx
    /\ UNCHANGED <<nodeState, storage, mutex_, producer, pcP, iter, handles>>

\* Consumer dst(std::move(src)): dst stands for the new object, so it holds
\* nothing before.
MoveConstruct(dst, src) ==
    /\ dst # src
    /\ consumer[dst] = EmptyChain
    /\ consumer[src].root_ # Null
    /\ LET r == ConsumerMove(consumer[src])
       IN  consumer' = [consumer EXCEPT ![dst] = r.c, ![src] = r.other]
    /\ UNCHANGED <<next_, nodeState, storage, mutex_, producer, pcP, iter, handles>>

\* dst = std::move(src): temp is move-constructed from src and swapped with
\* dst; the destructor of temp frees what dst held.
MoveAssign(dst, src) ==
    /\ dst # src
    /\ consumer[dst].root_ # Null \/ consumer[src].root_ # Null
    /\ LET r == ConsumerMove(consumer[src])
           dead == ChainNodes(consumer[dst], next_)
       IN  /\ consumer' = [consumer EXCEPT ![dst] = r.c, ![src] = r.other]
           /\ nodeState' = [n \in Nodes |-> IF n \in dead THEN "freed" ELSE nodeState[n]]
           /\ next_' = [n \in Nodes |-> IF n \in dead THEN Null ELSE next_[n]]
    /\ UNCHANGED <<storage, mutex_, producer, pcP, iter, handles>>

\* The history kept beside a storage operation; the collector stands still.
Did(op) == lastOp' = op /\ UNCHANGED <<pubPre, passLog, gcVars, finVars, refVars, sizeVars, cpuVars>>

\* Insert sets the address of its node itself.
DidInsert == lastOp' = "Insert" /\ UNCHANGED <<pubPre, passLog, gcVars, finVars, header, sizeVars, cpuVars>>

\* Publish records the chains it found when it took the lock.
DidLock(m) ==
    /\ pubPre' = [R |-> ChainSeq(storage, next_), P |-> ChainSeq(producer[m], next_)]
    /\ UNCHANGED <<lastOp, passLog, gcVars, finVars, refVars, sizeVars, cpuVars>>

\* begin() starts a pass: the registry and the consumer as they are now.
DidBegin ==
    /\ lastOp' = "begin"
    /\ passLog' = [on |-> TRUE, start |-> ChainSeq(storage, next_), moved |-> <<>>,
                   erased |-> {}, base |-> ChainSeq(consumer["sweepQueue"], next_), ok |-> TRUE]
    /\ UNCHANGED <<pubPre, gcVars, finVars, refVars, sizeVars, cpuVars>>

\* The pass records the node the iterator stood at when it was moved or erased.
DidMove ==
    /\ lastOp' = "MoveAndAdvance"
    /\ passLog' = [passLog EXCEPT !.moved = Append(@, iter.node_)]
    /\ UNCHANGED <<pubPre, gcVars, finVars, refVars, sizeVars, cpuVars>>

DidErase ==
    /\ lastOp' = "EraseAndAdvance"
    /\ passLog' = [passLog EXCEPT !.erased = @ \cup {iter.node_}]
    /\ UNCHANGED <<pubPre, gcVars, finVars, refVars, sizeVars, cpuVars>>

\* The consumer of the pass was merged away or destroyed: what it held is
\* no longer followed.
DidEmpty(op) ==
    /\ lastOp' = op
    /\ passLog' = IF passLog.on THEN [passLog EXCEPT !.ok = FALSE, !.base = <<>>] ELSE passLog
    /\ UNCHANGED <<pubPre, gcVars, finVars, refVars, sizeVars, cpuVars>>

\* The pass ends with its Iterable.
DidRelease ==
    /\ passLog' = NoPass
    /\ UNCHANGED <<pubPre, lastOp, gcVars, finVars, refVars, sizeVars, cpuVars>>

Same == UNCHANGED <<histVars, gcVars, finVars, refVars, sizeVars, cpuVars>>

Init == StorageInit /\ GCInit /\ FinInit /\ RefInit /\ SizeInit /\ CpuInit

Next ==
    \/ \E m \in Mutators : Insert(m) /\ DidInsert
    \/ \E m \in Mutators : PublishEmpty(m) /\ Did("PublishEmpty")
    \/ \E m \in Mutators : PublishLock(m) /\ DidLock(m)
    \/ \E m \in Mutators : PublishDoSplice(m) /\ Same
    \/ \E m \in Mutators : PublishFinish(m) /\ Did("Publish")
    \/ LockForIter /\ Same
    \/ Begin /\ DidBegin
    \/ Inc /\ Did("++")
    \/ EraseAndAdvance /\ DidErase
    \/ MoveAndAdvance("sweepQueue") /\ DidMove
    \/ ReleaseIter /\ DidRelease
    \/ Merge /\ DidEmpty("MergeWith")
    \/ DestroyConsumer("sweepQueue") /\ DidEmpty("~Consumer")
    \/ DestroyConsumer("finalizerQueue_") /\ Did("~Consumer")

\* The storage alone, driven by any caller.
Spec == Init /\ [][Next]_vars

\* MergeWith records the two chains it was called with.
DidMergeWith(dst, src) ==
    /\ lastOp' = "MergeWith"
    /\ pubPre' = [R |-> ChainSeq(consumer[dst], next_), P |-> ChainSeq(consumer[src], next_)]
    /\ UNCHANGED <<passLog, gcVars, finVars, refVars, sizeVars, cpuVars>>

\* Producers and consumers: nodes are inserted, published, moved into either
\* consumer, and the consumers merged, move-constructed and move-assigned.
NextChains ==
    \/ \E m \in Mutators : Insert(m) /\ DidInsert
    \/ \E m \in Mutators : PublishLock(m) /\ Same
    \/ \E m \in Mutators : PublishDoSplice(m) /\ Same
    \/ \E m \in Mutators : PublishFinish(m) /\ Did("Publish")
    \/ LockForIter /\ Same
    \/ Begin /\ Did("begin")
    \/ \E c \in Consumers : MoveAndAdvance(c) /\ Did("MoveAndAdvance")
    \/ ReleaseIter /\ Same
    \/ \E dst \in Consumers : \E src \in Consumers : MergeInto(dst, src) /\ DidMergeWith(dst, src)
    \/ \E dst \in Consumers : \E src \in Consumers :
            MoveConstruct(dst, src) /\ Did("Consumer(Consumer&&)")
    \/ \E dst \in Consumers : \E src \in Consumers : MoveAssign(dst, src) /\ Did("operator=")

SpecChains == Init /\ [][NextChains]_vars

NextTeardown ==
    \/ \E m \in Mutators : Insert(m) /\ DidInsert
    \/ \E m \in Mutators : PublishLock(m) /\ DidLock(m)
    \/ \E m \in Mutators : PublishDoSplice(m) /\ Same
    \/ \E m \in Mutators : PublishFinish(m) /\ Did("Publish")
    \/ LockForIter /\ Same
    \/ ReleaseIter /\ Same
    \/ \E m \in Mutators : DtorEmpty(m) /\ Did("~Producer")
    \/ \E m \in Mutators : DtorLock(m) /\ DidLock(m)
    \/ \E m \in Mutators : DtorSplice(m) /\ Same
    \/ \E m \in Mutators : DtorFinish(m) /\ Did("~Producer")
    \/ \E m \in Mutators : NewProducer(m) /\ Did("Producer")

\* Threads that insert, publish and are torn down; nothing is erased.
SpecTeardown == Init /\ [][NextTeardown]_vars

----------------------------------------------------------------------------
(* Well-formedness of a chain: what AssertCorrect checks, and size_.       *)

WellFormed(q, nx) ==
    LET s == ChainSeq(q, nx)
    IN  /\ (q.root_ = Null) <=> (q.last_ = Null)
        /\ (q.last_ = Null) <=> (q.size_ = 0)
        /\ Len(s) <= MaxNodes
        /\ Cardinality(SeqSet(s)) = Len(s)
        /\ Len(s) = q.size_
        /\ q.root_ # Null => (q.last_ = s[Len(s)] /\ nx[q.last_] = Null)

\* No Publish is between taking and releasing the lock.
Quiescent == \A m \in Mutators : pcP[m] = "idle"

RECURSIVE SumSizes(_, _)
SumSizes(f, S) ==
    IF S = {} THEN 0
    ELSE LET x == CHOOSE y \in S : TRUE IN f[x].size_ + SumSizes(f, S \ {x})

\* The sum of size_ over the registry, the producers and the consumers.
TotalSize(st, pr, co) == st.size_ + SumSizes(pr, Mutators) + SumSizes(co, Consumers)

\* How many chains reach node n from their root_.
Owners(n) ==
    Cardinality({m \in Mutators : n \in ChainNodes(producer[m], next_)})
    + Cardinality({c \in Consumers : n \in ChainNodes(consumer[c], next_)})
    + (IF n \in ChainNodes(storage, next_) THEN 1 ELSE 0)

LiveNodes == {n \in Nodes : nodeState[n] = "live"}

\* The predecessor of node n in the sequence s (Null for the first).
PredIn(s, n) ==
    IF \E i \in 2..Len(s) : s[i] = n
    THEN s[(CHOOSE i \in 2..Len(s) : s[i] = n) - 1]
    ELSE Null

\* The successor of node n in the sequence s (Null for the last).
SuccIn(s, n) ==
    IF \E i \in 1..(Len(s) - 1) : s[i] = n
    THEN s[(CHOOSE i \in 1..(Len(s) - 1) : s[i] = n) + 1]
    ELSE Null

----------------------------------------------------------------------------
(* Claims about the storage *)

\* C1: whenever no Publish is in progress (that is, after any sequence of
\* completed Insert, Publish, EraseAndAdvance and MoveAndAdvance), the
\* registry has root_ = null iff last_ = null iff size_ = 0, last_ is the
\* node reached last from root_ with next_ = null, and iteration from root_
\* visits exactly size_ distinct nodes.
RegistryWellFormed == Quiescent => WellFormed(storage, next_)

\* C1 witness: an EraseAndAdvance has just run on a registry built by Insert
\* and Publish, a MoveAndAdvance has filled a consumer, a node is left.
RegistryWellFormedWitness ==
    /\ lastOp = "EraseAndAdvance"
    /\ storage.size_ >= 1
    /\ \E c \in Consumers : consumer[c].size_ >= 1
    /\ Quiescent

\* C2: the step that completes a Publish of producer chain P into registry
\* chain R leaves the registry chain R \o P, size_ = |R| + |P|, last_ = the
\* last node of P, and the producer empty.
PublishAppends ==
    [][\A m \in Mutators : PublishFinish(m) =>
          /\ pubPre.P # <<>>
          /\ ChainSeq(storage', next_') = pubPre.R \o pubPre.P
          /\ storage'.size_ = Len(pubPre.R) + Len(pubPre.P)
          /\ storage'.last_ = pubPre.P[Len(pubPre.P)]
          /\ producer'[m] = EmptyChain]_vars

\* C2 witness: a Publish of two or more nodes onto a non-empty registry has
\* completed (the registry was empty at the first Publish of the run).
PublishAppendsWitness ==
    /\ lastOp = "Publish"
    /\ pubPre.R # <<>>
    /\ Len(pubPre.P) >= 2
    /\ Quiescent
    /\ storage.size_ = Len(pubPre.R) + Len(pubPre.P)

InPublish == {m \in Mutators : pcP[m] \in {"locked", "spliced"}}

\* C8: mutex_ has at most one holder among the live Iterables and the
\* producers inside Publish, so no second Iterable exists and no two
\* Publish calls overlap; and while an Iterable lives, root_, last_ and
\* size_ of the registry change only by its EraseAndAdvance/MoveAndAdvance.
LockExcludes ==
    /\ [](Cardinality(InPublish) + handles <= 1)
    /\ [](Cardinality(InPublish) + handles = 1 => mutex_ # "free")
    /\ [][(handles > 0 /\ storage' # storage) =>
            (EraseAndAdvance \/ MoveAndAdvance("sweepQueue"))]_vars

\* C8 witness: an Iterable is alive while both producers hold nodes they
\* could publish, and neither is inside Publish.
LockExcludesWitness ==
    /\ handles = 1
    /\ \A m \in Mutators : producer[m].root_ # Null /\ pcP[m] = "idle"
    /\ storage.size_ >= 1

\* C9: every live node is reached from exactly one chain and every other
\* node from none; the sizes add up to the number of live nodes; the sum
\* grows by one on Insert, shrinks by one on EraseAndAdvance, shrinks by the
\* chain's size when a consumer is destroyed, and is otherwise unchanged.
NodesOwnedOnce ==
    /\ [](\A n \in Nodes : Owners(n) = IF nodeState[n] = "live" THEN 1 ELSE 0)
    /\ [](TotalSize(storage, producer, consumer) = Cardinality(LiveNodes))
    /\ [][LET before == TotalSize(storage, producer, consumer)
              after == TotalSize(storage', producer', consumer')
          IN  /\ (\E m \in Mutators : Insert(m)) => after = before + 1
              /\ EraseAndAdvance => after = before - 1
              /\ (\E c \in Consumers : DestroyConsumer(c)) => after < before
              /\ after # before =>
                    \/ \E m \in Mutators : Insert(m)
                    \/ EraseAndAdvance
                    \/ \E c \in Consumers : DestroyConsumer(c)]_vars

\* C9 witness: nodes sit in a producer, in the registry and in the
\* finalizer processor's queue at once, after a MergeWith.
NodesOwnedOnceWitness ==
    /\ lastOp = "MergeWith"
    /\ consumer["finalizerQueue_"].size_ >= 1
    /\ storage.size_ >= 1
    /\ \E m \in Mutators : producer[m].size_ >= 1

\* C10: EraseAndAdvance on an iterator at node n removes exactly n, keeps the
\* order of the others, decrements size_, moves last_ to n's predecessor
\* when n was last, leaves the iterator at n's successor with previousNode_
\* unchanged; and the iterator then again has previousNode_ the predecessor
\* of node_ (last_ when at end), so the next EraseAndAdvance or
\* MoveAndAdvance removes node_.
EraseRemovesCurrent ==
    [][LET before == ChainSeq(storage, next_)
           after == ChainSeq(storage', next_')
           n == iter.node_
       IN  /\ EraseAndAdvance =>
                 /\ after = Without(before, n)
                 /\ Len(after) = Len(before) - 1
                 /\ storage'.size_ = storage.size_ - 1
                 /\ storage'.last_ = IF n = storage.last_ THEN PredIn(before, n) ELSE storage.last_
                 /\ iter'.node_ = SuccIn(before, n)
                 /\ iter'.previousNode_ = iter.previousNode_
                 /\ iter'.previousNode_ = IF iter'.node_ = Null THEN storage'.last_
                                          ELSE PredIn(after, iter'.node_)
                 /\ iter'.node_ # Null => iter'.node_ \in SeqSet(after)
           /\ (MoveAndAdvance("sweepQueue")) =>
                 /\ n \in SeqSet(before)
                 /\ after = Without(before, n)]_vars

\* C10 witness: a node with a predecessor and a successor has been erased.
EraseRemovesCurrentWitness ==
    /\ lastOp = "EraseAndAdvance"
    /\ iter.live
    /\ iter.previousNode_ # Null
    /\ iter.node_ # Null
    /\ storage.size_ = 2

\* C11: MoveAndAdvance on an iterator at node n removes n from the registry
\* (size_ - 1, the others in their order), appends n at the tail of the
\* consumer (size_ + 1, n's next_ null) and leaves the iterator at n's former
\* successor; throughout a pass the moved nodes are in the order they were
\* visited, the consumer holds what it held at begin() followed by them, and
\* the registry holds the nodes not moved or erased in their original order.
MoveAppends ==
    /\ [][MoveAndAdvance("sweepQueue") =>
            LET n == iter.node_
                before == ChainSeq(storage, next_)
                after == ChainSeq(storage', next_')
                cb == ChainSeq(consumer["sweepQueue"], next_)
                ca == ChainSeq(consumer'["sweepQueue"], next_')
            IN  /\ n \in SeqSet(before)
                /\ after = Without(before, n)
                /\ storage'.size_ = storage.size_ - 1
                /\ ca = Append(cb, n)
                /\ consumer'["sweepQueue"].size_ = consumer["sweepQueue"].size_ + 1
                /\ consumer'["sweepQueue"].last_ = n
                /\ next_'[n] = Null
                /\ iter'.node_ = SuccIn(before, n)
                /\ iter'.previousNode_ = iter.previousNode_]_vars
    /\ [](passLog.on =>
            /\ passLog.moved = Restrict(passLog.start, SeqSet(passLog.moved))
            /\ ChainSeq(storage, next_) =
                  Restrict(passLog.start,
                           SeqSet(passLog.start) \ (SeqSet(passLog.moved) \cup passLog.erased))
            /\ passLog.ok =>
                  ChainSeq(consumer["sweepQueue"], next_) = passLog.base \o passLog.moved)

\* C11 witness: a pass over three nodes is complete that moved the first and
\* the third and left the second in the registry.
MoveAppendsWitness ==
    /\ passLog.on /\ passLog.ok
    /\ iter.live /\ iter.node_ = Null
    /\ Len(passLog.start) = 3
    /\ passLog.moved = <<passLog.start[1], passLog.start[3]>>
    /\ ChainSeq(storage, next_) = <<passLog.start[2]>>
    /\ ChainSeq(consumer["sweepQueue"], next_) = passLog.moved

\* C12: Publish on an empty producer changes nothing of the registry
\* (root_, last_, size_, the links) and does not touch mutex_; it can run
\* to completion in every state where the producer is empty, whoever holds
\* mutex_.
EmptyPublishNoLock ==
    /\ [][\A m \in Mutators : PublishEmpty(m) => UNCHANGED <<storage, next_, mutex_, producer>>]_vars
    /\ [](\A m \in Mutators :
            (pcP[m] = "idle" /\ producer[m].root_ = Null) => ENABLED PublishEmpty(m))

\* C12 witness: an empty Publish has just completed while an Iterable holds
\* mutex_ over a non-empty registry.
EmptyPublishNoLockWitness ==
    /\ lastOp = "PublishEmpty"
    /\ handles = 1
    /\ mutex_ = "iter"
    /\ iter.live
    /\ storage.size_ >= 1

\* C13: when a producer is destroyed every node it had inserted and not
\* published is in the registry afterwards: the destructor leaves the
\* registry holding its old chain followed by the producer's, a dead producer
\* holds nothing, and (nothing being erased) every node ever inserted is live
\* and is in the registry or in the queue of a producer.
DtorPublishes ==
    /\ [][\A m \in Mutators : DtorFinish(m) =>
            /\ pubPre.P # <<>>
            /\ ChainSeq(storage', next_') = pubPre.R \o pubPre.P
            /\ storage'.size_ = Len(pubPre.R) + Len(pubPre.P)
            /\ producer'[m] = EmptyChain]_vars
    /\ [](\A m \in Mutators : pcP[m] = "dead" => producer[m] = EmptyChain)
    /\ [](\A n \in Nodes : nodeState[n] # "unallocated" =>
            /\ nodeState[n] = "live"
            /\ Owners(n) = 1)

\* C13 witness: a producer that held two unpublished nodes has been
\* destroyed over a non-empty registry, which now ends with those nodes.
DtorPublishesWitness ==
    /\ lastOp = "~Producer"
    /\ \E m \in Mutators : pcP[m] = "dead"
    /\ pubPre.R # <<>>
    /\ Len(pubPre.P) = 2
    /\ ChainSeq(storage, next_) = pubPre.R \o pubPre.P
    /\ mutex_ = "free"

----------------------------------------------------------------------------
(* The collector cycle: mutators allocate, change references, publish and  *)
(* request collections; the collector thread stops the world, marks, and   *)
(* sweeps the registry into a finalizer queue while the mutators run.      *)

\* The objects reached from the set rs through field, rs included.
RECURSIVE ReachableFrom(_, _)
ReachableFrom(rs, fld) ==
    LET more == {fld[n] : n \in rs} \ {Null}
    IN  IF more \subseteq rs THEN rs ELSE ReachableFrom(rs \cup more, fld)

RECURSIVE SetToSeq(_)
SetToSeq(S) ==
    IF S = {} THEN <<>>
    ELSE LET x == CHOOSE y \in S : \A z \in S : y <= z IN <<x>> \o SetToSeq(S \ {x})

\* Marking with a work stack: a WHITE object is painted BLACK and its WHITE
\* child is pushed; an object already BLACK is dropped from the stack.
RECURSIVE Mark(_, _, _)
Mark(stack, col, fld) ==
    IF stack = <<>> THEN col
    ELSE LET top == Head(stack)
             child == fld[top]
         IN  IF col[top] = "kBlack"
             THEN Mark(Tail(stack), col, fld)
             ELSE Mark((IF child # Null /\ col[child] = "kWhite" THEN <<child>> ELSE <<>>)
                           \o Tail(stack),
                       setColor(col, top, "kBlack"), fld)

\* Producer::Publish run to completion for every mutator of the set S.
RECURSIVE PublishAll(_, _, _, _)
PublishAll(S, owner, pr, nx) ==
    IF S = {} THEN [owner |-> owner, pr |-> pr, nx |-> nx]
    ELSE LET m == CHOOSE x \in S : TRUE
         IN  IF pr[m].root_ = Null
             THEN PublishAll(S \ {m}, owner, pr, nx)
             ELSE LET a == PublishSplice(owner, pr[m], nx)
                      b == PublishUpdate(a.owner, a.q)
                  IN  PublishAll(S \ {m}, b.owner, [pr EXCEPT ![m] = b.q], a.nx)

ProducerNodes == UNION {ChainNodes(producer[m], next_) : m \in Mutators}

\* ThreadQueue::CreateObject: Producer::Insert, then the HeapObjHeader is
\* constructed in the node (colour InitialColor); the mutator keeps the
\* returned object in a root.
\* CreateObject and CreateArray: Insert, then the heap header is built in the
\* node's data (its ObjectData default-initialised) and the address of the
\* embedded header returned.
CreateHeader(m, isArray) ==
    /\ mstate[m] = "running"
    /\ Cardinality({k \in Nodes : nodeState[k] # "unallocated"}) < MaxObjects
    /\ Insert(m)
    /\ LET n == FreshNode(nodeState)
       IN  /\ color' = setColor(color, n, InitialColor)
           /\ roots' = roots \cup {n}
           /\ header' = [header EXCEPT ![n] =
                            [ptr |-> IF isArray THEN HeapArray(NodeData(address'[n]))
                                                ELSE HeapObject(NodeData(address'[n])),
                             isArray |-> isArray]]
    /\ UNCHANGED <<histVars, field, phase, suspendFlag, mstate, currentEpoch, startedEpoch,
                   finishedEpoch, gcEpoch, obtained, gcLog, fp, req, cpu>>

CreateObject(m) == CreateHeader(m, FALSE)

CreateArray(m) == CreateHeader(m, TRUE)

\* A mutator stores a reference to a reachable object c (or null) into a
\* reachable object p. The arrays are arrays of primitives: trace reports
\* no child for them.
StoreField(m, p, c) ==
    /\ mstate[m] = "running"
    /\ ~header[p].isArray
    /\ p \in ReachableFrom(roots, field)
    /\ c \in ReachableFrom(roots, field) \cup {Null}
    /\ c # p
    /\ field[p] # c
    /\ field' = [field EXCEPT ![p] = c]
    /\ UNCHANGED <<storageVars, color, roots, phase, suspendFlag, mstate, currentEpoch,
                   startedEpoch, finishedEpoch, gcEpoch, obtained, gcLog, fp, address, header, req, cpu>>

\* A mutator drops a root.
DropRoot(m, n) ==
    /\ mstate[m] = "running"
    /\ n \in roots
    /\ roots' = roots \ {n}
    /\ UNCHANGED <<storageVars, color, field, phase, suspendFlag, mstate, currentEpoch,
                   startedEpoch, finishedEpoch, gcEpoch, obtained, gcLog, fp, address, header, req, cpu>>

\* ThreadQueue::Publish called by a running mutator, in its three steps.
MutatorPublish(m) ==
    /\ mstate[m] = "running"
    /\ PublishLock(m) \/ PublishDoSplice(m) \/ PublishFinish(m)
    /\ UNCHANGED <<histVars, gcVars, finVars, refVars, sizeVars, cpuVars>>

\* A safepoint: the mutator sees the suspend request and parks.
Park(m) ==
    /\ mstate[m] = "running"
    /\ pcP[m] = "idle"
    /\ suspendFlag
    /\ mstate' = [mstate EXCEPT ![m] = "parked"]
    /\ UNCHANGED <<storageVars, color, roots, field, phase, suspendFlag, currentEpoch,
                   startedEpoch, finishedEpoch, gcEpoch, obtained, gcLog, fp, address, header, req, cpu>>

\* The suspend request is gone: the mutator resumes.
Unpark(m) ==
    /\ mstate[m] = "parked"
    /\ ~suspendFlag
    /\ mstate' = [mstate EXCEPT ![m] = "running"]
    /\ UNCHANGED <<storageVars, color, roots, field, phase, suspendFlag, currentEpoch,
                   startedEpoch, finishedEpoch, gcEpoch, obtained, gcLog, fp, address, header, req, cpu>>

\* requestCollection that bumps the epoch on every call.
RequestedEpochAlwaysBumps(cur, started) == cur + 1

\* requestCollection: bumps the epoch unless a requested epoch has not yet
\* started; the value to wait on.
RequestedEpoch(cur, started) == IF cur <= started THEN cur + 1 ELSE cur

\* A wait that is satisfied one epoch early.
FinishReachedEarly(finished, epoch) == finished + 1 >= epoch

\* waitForFinish(epoch) may return.
FinishReached(finished, epoch) == finished >= epoch

\* A safepoint of a running mutator at which the scheduler asks for a
\* collection: the request without the wait.
SchedulerRequest(m) ==
    /\ mstate[m] = "running"
    /\ RequestedEpoch(currentEpoch, startedEpoch) <= MaxEpoch
    /\ currentEpoch' = RequestedEpoch(currentEpoch, startedEpoch)
    /\ currentEpoch' # currentEpoch
    /\ UNCHANGED <<storageVars, color, roots, field, phase, suspendFlag, mstate, startedEpoch,
                   finishedEpoch, gcEpoch, obtained, gcLog, fp, address, header, req, cpu>>

\* ScheduleAndWaitFullGC, the request: the mutator then blocks.
ScheduleAndWaitFullGC(m) ==
    /\ mstate[m] = "running"
    /\ pcP[m] = "idle"
    /\ RequestedEpoch(currentEpoch, startedEpoch) <= MaxEpoch
    /\ currentEpoch' = RequestedEpoch(currentEpoch, startedEpoch)
    /\ obtained' = [obtained EXCEPT ![m] = currentEpoch']
    /\ mstate' = [mstate EXCEPT ![m] = "waiting"]
    /\ UNCHANGED <<storageVars, color, roots, field, phase, suspendFlag, startedEpoch,
                   finishedEpoch, gcEpoch, gcLog, fp, address, header, req, cpu>>

\* ScheduleAndWaitFullGC returns.
WaitReturn(m) ==
    /\ mstate[m] = "waiting"
    /\ FinishReached(finishedEpoch, obtained[m])
    /\ mstate' = [mstate EXCEPT ![m] = IF suspendFlag THEN "parked" ELSE "running"]
    /\ UNCHANGED <<storageVars, color, roots, field, phase, suspendFlag, currentEpoch,
                   startedEpoch, finishedEpoch, gcEpoch, obtained, gcLog, fp, address, header, req, cpu>>

\* Idle -> Initiating for epoch e: the suspend flag is raised.
Initiate(e) ==
    /\ phase = "idle"
    /\ gcEpoch' = e
    /\ suspendFlag' = TRUE
    /\ phase' = "initiating"
    /\ gcLog' = [EmptyLog EXCEPT !.unpublished = ProducerNodes]
    /\ UNCHANGED <<storageVars, color, roots, field, mstate, currentEpoch, startedEpoch,
                   finishedEpoch, obtained, fp, address, header, req, cpu>>

\* A collector that starts the next epoch without waiting for a request.
GCInitiateUnrequested == Initiate(startedEpoch + 1)

\* awaitRequest returns the epoch that was requested and has not started.
GCInitiate ==
    /\ currentEpoch > startedEpoch
    /\ Initiate(currentEpoch)

\* A collection requested by the scheduler, whose policy is external; the
\* epoch numbers are not followed here.
GCCycle == Initiate(gcEpoch)

\* Marking, with every mutator stopped: the epoch is started, every
\* mutator's producer is published, the roots are marked.
GCMark ==
    /\ phase = "initiating"
    /\ \A m \in Mutators : mstate[m] # "running"
    /\ mutex_ = "free"
    /\ startedEpoch' = gcEpoch
    /\ LET r == PublishAll(Mutators, storage, producer, next_)
       IN  /\ storage' = r.owner
           /\ producer' = r.pr
           /\ next_' = r.nx
    /\ color' = Mark(SetToSeq(roots), color, field)
    /\ gcLog' = [gcLog EXCEPT !.reach = ReachableFrom(roots, field),
                              !.white = {n \in ChainNodes(storage', next_') : color'[n] = "kWhite"}]
    /\ phase' = "marked"
    /\ UNCHANGED <<nodeState, mutex_, pcP, consumer, iter, handles, histVars, roots,
                   field, suspendFlag, mstate, currentEpoch, finishedEpoch, gcEpoch, obtained, fp, address, header, req, cpu>>

\* Marking -> Sweeping: the suspend flag is released and the registry is
\* taken for iteration (LockForIter, begin) in one step: the collector holds
\* mutex_ before any resumed mutator can publish.
GCBeginSweep ==
    /\ phase = "marked"
    /\ mutex_ = "free"
    /\ suspendFlag' = FALSE
    /\ mutex_' = "iter"
    /\ handles' = handles + 1
    /\ iter' = IterableBegin(storage)
    /\ gcLog' = [gcLog EXCEPT !.snapshot = ChainNodes(storage, next_)]
    /\ phase' = "sweeping"
    /\ UNCHANGED <<next_, nodeState, storage, producer, pcP, consumer, histVars, color,
                   roots, field, mstate, currentEpoch, startedEpoch, finishedEpoch, gcEpoch,
                   obtained, fp, address, header, req, cpu>>

\* A sweep step that leaves a black node black.
GCSweepStepNoRepaint ==
    /\ phase = "sweeping"
    /\ iter.node_ # Null
    /\ IF color[iter.node_] = "kBlack"
       THEN /\ Inc
            /\ color' = color
            /\ gcLog' = [gcLog EXCEPT !.visited = @ \cup {iter.node_}]
       ELSE /\ MoveAndAdvance("sweepQueue")
            /\ color' = color
            /\ gcLog' = [gcLog EXCEPT !.visited = @ \cup {iter.node_},
                                      !.moved[iter.node_] = @ + 1]
    /\ UNCHANGED <<histVars, roots, field, phase, suspendFlag, mstate, currentEpoch,
                   startedEpoch, finishedEpoch, gcEpoch, obtained, fp, address, header, req, cpu>>

\* One node of the sweep: BLACK is repainted WHITE and passed, WHITE is moved
\* to the finalizer queue being filled.
GCSweepStep ==
    /\ phase = "sweeping"
    /\ iter.node_ # Null
    /\ IF color[iter.node_] = "kBlack"
       THEN /\ Inc
            /\ color' = setColor(color, iter.node_, "kWhite")
            /\ gcLog' = [gcLog EXCEPT !.visited = @ \cup {iter.node_}]
       ELSE /\ MoveAndAdvance("sweepQueue")
            /\ color' = color
            /\ gcLog' = [gcLog EXCEPT !.visited = @ \cup {iter.node_},
                                      !.moved[iter.node_] = @ + 1]
    /\ UNCHANGED <<histVars, roots, field, phase, suspendFlag, mstate, currentEpoch,
                   startedEpoch, finishedEpoch, gcEpoch, obtained, fp, address, header, req, cpu>>

\* The iterator is at end(): the Iterable is destroyed.
GCSweepDone ==
    /\ phase = "sweeping"
    /\ iter.node_ = Null
    /\ ReleaseIter
    /\ phase' = "finalizing"
    /\ UNCHANGED <<histVars, color, roots, field, suspendFlag, mstate, currentEpoch, startedEpoch,
                   finishedEpoch, gcEpoch, obtained, gcLog, fp, address, header, req, cpu>>

\* Finalizing: the queue goes to the finalizer processor (ScheduleTasks
\* merges it into finalizerQueue_), finished(epoch) is signaled.
GCFinalize ==
    /\ phase = "finalizing"
    /\ Merge
    /\ finishedEpoch' = gcEpoch
    /\ phase' = "idle"
    /\ gcLog' = EmptyLog
    /\ UNCHANGED <<histVars, color, roots, field, suspendFlag, mstate, currentEpoch, startedEpoch,
                   gcEpoch, obtained, fp, address, header, req, cpu>>

NextGC ==
    \/ \E m \in Mutators : CreateObject(m)
    \/ \E m \in Mutators : CreateArray(m)
    \/ \E m \in Mutators : \E p \in Nodes : \E c \in NodePtr : StoreField(m, p, c)
    \/ \E m \in Mutators : \E n \in Nodes : DropRoot(m, n)
    \/ \E m \in Mutators : MutatorPublish(m)
    \/ \E m \in Mutators : Park(m)
    \/ \E m \in Mutators : Unpark(m)
    \/ GCCycle
    \/ GCMark
    \/ GCBeginSweep
    \/ GCSweepStep
    \/ GCSweepDone
    \/ GCFinalize

\* Mutators and collector over the heap.
SpecGC == Init /\ [][NextGC]_vars

NextEpoch ==
    \/ \E m \in Mutators : Park(m)
    \/ \E m \in Mutators : Unpark(m)
    \/ \E m \in Mutators : SchedulerRequest(m)
    \/ \E m \in Mutators : ScheduleAndWaitFullGC(m)
    \/ \E m \in Mutators : WaitReturn(m)
    \/ GCInitiate
    \/ GCMark
    \/ GCBeginSweep
    \/ GCSweepDone
    \/ GCFinalize

\* Mutators requesting collections and the collector's epochs, on an empty heap.
SpecEpoch == Init /\ [][NextEpoch]_vars

----------------------------------------------------------------------------
(* The object factory used on its own: objects and arrays are created and   *)
(* published, and an Iterable erases nodes or moves them to a finalizer      *)
(* queue, whatever their color.                                              *)

NextFactory ==
    \/ \E m \in Mutators : CreateObject(m)
    \/ \E m \in Mutators : CreateArray(m)
    \/ \E m \in Mutators : MutatorPublish(m)
    \/ LockForIter /\ Same
    \/ Begin /\ Same
    \/ Inc /\ Same
    \/ EraseAndAdvance /\ Same
    \/ MoveAndAdvance("sweepQueue") /\ Same
    \/ ReleaseIter /\ Same
    \/ Merge /\ Same

SpecFactory == Init /\ [][NextFactory]_vars

\* Array sizes are computed for every array type and count.
NextSize == \E t \in ArrayInstanceSizes : \E c \in Counts : ArraySizeRequest(t, c)

SpecSize == Init /\ [][NextSize]_vars

\* The processor count is asked for on every platform with every answer.
NextCpu ==
    \/ CallNoThreads
    \/ \E ok \in BOOLEAN : \E pm \in Masks : \E sm \in Masks : \E hc \in HardwareConcurrency :
            CallWindows(ok, pm, sm, hc)
    \/ \E first \in {0, -1} : \E succeedAt \in LoopCalls : \E hc \in HardwareConcurrency :
            CallLinux(first, succeedAt, hc)
    \/ \E hc \in HardwareConcurrency : CallOther(hc)

SpecCpu == Init /\ [][NextCpu]_vars

----------------------------------------------------------------------------
(* The finalizer processor: the collector hands it queues tagged with       *)
(* epochs, its worker thread runs the finalizers and reports epochs done.   *)
(* The pending queue is followed by its size.                               *)

\* ScheduleTasks that does not look at newTasksAllowed_.
ScheduleTasksUnguarded(f, k, e) ==
    [f EXCEPT !.queue = @ + k, !.queueEpoch = e,
              !.thread = IF @ \in {"none", "exited"} THEN "idle" ELSE @,
              !.handed = e, !.accepted = e,
              !.acceptedFull = IF k > 0 THEN e ELSE @]

\* ScheduleTasks(tasks, epoch) with k = tasks.size(): the queue is spliced
\* onto the pending queue, the epoch recorded, the worker started if there
\* is none; dropped when new tasks are not allowed.
ScheduleTasksEffect(f, k, e) ==
    IF f.newTasksAllowed
    THEN [f EXCEPT !.queue = @ + k, !.queueEpoch = e,
                   !.thread = IF @ = "none" THEN "idle" ELSE @,
                   !.handed = e, !.accepted = e,
                   !.acceptedFull = IF k > 0 THEN e ELSE @]
    ELSE [f EXCEPT !.handed = e,
                   !.droppedAfterStop = @ \/ f.stop = "returned"]

\* The collector hands over the queue of its next epoch.
ScheduleTasks(k) ==
    /\ fp.handed < MaxEpoch
    /\ fp' = ScheduleTasksEffect(fp, k, fp.handed + 1)
    /\ UNCHANGED <<storageVars, gcVars, refVars, sizeVars, cpuVars>>

\* A worker that never reports.
WorkerReportNothing ==
    /\ fp.thread = "report"
    /\ fp' = [fp EXCEPT !.thread = "idle"]
    /\ UNCHANGED <<storageVars, gcVars, refVars, sizeVars, cpuVars>>

\* Worker loop: the wait ends when the pending queue is non-empty or
\* shutdown is requested; the whole queue is taken, or the thread exits.
WorkerTake ==
    /\ fp.thread = "idle"
    /\ fp.queue > 0 \/ fp.shutdownFlag
    /\ fp' = IF fp.queue = 0
             THEN [fp EXCEPT !.thread = "exited"]
             ELSE [fp EXCEPT !.thread = "work", !.taken = fp.queue, !.queue = 0]
    /\ UNCHANGED <<storageVars, gcVars, refVars, sizeVars, cpuVars>>

\* Worker loop, the mutex dropped: finalizers run on every node taken.
WorkerFinalize ==
    /\ fp.thread = "work"
    /\ fp' = [fp EXCEPT !.thread = "report", !.finalized = @ + fp.taken, !.taken = 0]
    /\ UNCHANGED <<storageVars, gcVars, refVars, sizeVars, cpuVars>>

\* Worker loop, the mutex retaken: epochDoneCallback(latest epoch) if the
\* queue is empty.
WorkerReport ==
    /\ fp.thread = "report"
    /\ fp' = [fp EXCEPT !.thread = "idle",
                        !.done = IF fp.queue = 0 THEN fp.queueEpoch ELSE @]
    /\ UNCHANGED <<storageVars, gcVars, refVars, sizeVars, cpuVars>>

\* StopFinalizerThread: further tasks are disallowed, the worker signaled.
StopRequest ==
    /\ fp.stop = "no"
    /\ fp' = [fp EXCEPT !.newTasksAllowed = FALSE, !.shutdownFlag = TRUE, !.stop = "joining"]
    /\ UNCHANGED <<storageVars, gcVars, refVars, sizeVars, cpuVars>>

\* StopFinalizerThread: the join, after which it returns.
StopJoin ==
    /\ fp.stop = "joining"
    /\ fp.thread \in {"none", "exited"}
    /\ fp' = [fp EXCEPT !.thread = "none", !.stop = "returned"]
    /\ UNCHANGED <<storageVars, gcVars, refVars, sizeVars, cpuVars>>

\* FinalizerProcessor::IsRunning
IsRunning == fp.thread \notin {"none", "exited"}

NextFin ==
    \/ \E k \in 0..MaxBatch : ScheduleTasks(k)
    \/ WorkerTake
    \/ WorkerFinalize
    \/ WorkerReport
    \/ StopRequest
    \/ StopJoin

\* The finalizer thread is scheduled fairly.
SpecFin ==
    /\ Init
    /\ [][NextFin]_vars
    /\ WF_vars(WorkerTake)
    /\ WF_vars(WorkerFinalize)
    /\ WF_vars(WorkerReport)

----------------------------------------------------------------------------
(* Claims about the collector cycle *)

SweptNodes ==
    ChainNodes(consumer["sweepQueue"], next_) \cup ChainNodes(consumer["finalizerQueue_"], next_)

\* C3: no object reachable from the roots when marking starts is moved to
\* the finalizer queue by the sweep of that cycle, the objects that were in a
\* mutator's unpublished producer queue at the trigger included: a swept
\* object is neither among those reachable at the mark nor reachable now.
NoReachableSwept ==
    /\ ChainNodes(consumer["sweepQueue"], next_) \cap gcLog.reach = {}
    /\ SweptNodes \cap ReachableFrom(roots, field) = {}

\* The sweep is over; an object that was unpublished at the trigger and
\* reachable at the mark is in the registry, and another object was swept.
NoReachableSweptWitness ==
    /\ phase = "finalizing"
    /\ consumer["sweepQueue"].root_ # Null
    /\ \E n \in gcLog.unpublished \cap gcLog.reach : n \in ChainNodes(storage, next_)

\* C5: every registry object that is WHITE when marking ends is moved into
\* the finalizer queue by the sweep of that cycle, exactly once: when the
\* sweep is over the queue holds exactly those objects, each once, none of
\* them is left in the registry, and no node is ever in two chains.
WhiteSweptOnce ==
    /\ \A n \in Nodes : Owners(n) <= 1 /\ gcLog.moved[n] <= 1
    /\ phase = "finalizing" =>
          /\ ChainNodes(consumer["sweepQueue"], next_) = gcLog.white
          /\ Len(ChainSeq(consumer["sweepQueue"], next_)) = Cardinality(gcLog.white)
          /\ consumer["sweepQueue"].size_ = Cardinality(gcLog.white)
          /\ ChainNodes(storage, next_) \cap gcLog.white = {}
          /\ \A n \in gcLog.white : gcLog.moved[n] = 1

\* A sweep is over that moved a WHITE object and left in the registry an
\* object that was BLACK.
WhiteSweptOnceWitness ==
    /\ phase = "finalizing"
    /\ gcLog.white # {}
    /\ \E b \in gcLog.snapshot \ gcLog.white : b \in ChainNodes(storage, next_)
    /\ \A w \in gcLog.white : w \in ChainNodes(consumer["sweepQueue"], next_)

\* C6: at the end of marking every BLACK object is reachable from the root
\* set through the references of the objects.
BlackIsReachable ==
    phase = "marked" =>
        \A n \in LiveNodes : color[n] = "kBlack" => n \in ReachableFrom(roots, field)

\* Marking has ended with an object BLACK that is no root (it was reached
\* through a reference).
BlackIsReachableWitness ==
    /\ phase = "marked"
    /\ \E n \in LiveNodes : color[n] = "kBlack" /\ n \notin roots

ReturnsAfterFinish ==
    /\ \A m \in Mutators :
          (mstate[m] # "waiting" /\ obtained[m] > 0) => finishedEpoch >= obtained[m]
    /\ finishedEpoch <= startedEpoch

\* A mutator has returned from waiting for the second epoch while the other
\* still waits for a later one.
ReturnsAfterFinishWitness ==
    \E m, o \in Mutators :
        /\ mstate[m] = "running" /\ obtained[m] = 2 /\ finishedEpoch = 2
        /\ mstate[o] = "waiting" /\ obtained[o] = 3

\* C14: for every epoch the order is requested, started, finished: the epoch
\* that is started has been requested, the epoch that is finished has been
\* started, and none of the three values ever decreases.
EpochOrder ==
    /\ [](finishedEpoch <= startedEpoch /\ startedEpoch <= currentEpoch)
    /\ [][/\ currentEpoch' >= currentEpoch
          /\ startedEpoch' >= startedEpoch
          /\ finishedEpoch' >= finishedEpoch
          /\ startedEpoch' # startedEpoch => startedEpoch' <= currentEpoch
          /\ finishedEpoch' # finishedEpoch => finishedEpoch' <= startedEpoch]_vars

\* C14 witness: the second epoch has been requested, started and finished
\* and a third is requested.
EpochOrderWitness ==
    /\ finishedEpoch = 2
    /\ startedEpoch = 2
    /\ currentEpoch = 3
    /\ phase = "idle"

\* C15: requests made while a collection runs share at most one further
\* epoch: the requested epoch is never more than one ahead of the started
\* one, every waiting caller waits for an epoch no later than that, and a
\* caller that has returned has seen finished for an epoch >= its own.
RequestsCoalesce ==
    /\ currentEpoch <= startedEpoch + 1
    /\ \A m \in Mutators :
          /\ obtained[m] <= currentEpoch
          /\ mstate[m] = "waiting" => obtained[m] <= startedEpoch + 1
          /\ (mstate[m] # "waiting" /\ obtained[m] > 0) => obtained[m] <= finishedEpoch

\* C15 witness: both mutators called while the collection of epoch gcEpoch
\* was sweeping and both wait for the one epoch after it.
RequestsCoalesceWitness ==
    /\ phase = "sweeping"
    /\ startedEpoch = gcEpoch
    /\ \A m \in Mutators : mstate[m] = "waiting" /\ obtained[m] = gcEpoch + 1
    /\ currentEpoch = gcEpoch + 1

StoppedDropsTasks ==
    /\ [](fp.stop = "returned" => (~IsRunning /\ fp.thread = "none" /\ fp.taken = 0))
    /\ [][fp.stop = "returned" =>
            /\ fp'.thread = "none"
            /\ fp'.queue = fp.queue
            /\ fp'.queueEpoch = fp.queueEpoch
            /\ fp'.finalized = fp.finalized
            /\ fp'.done = fp.done
            /\ fp'.accepted = fp.accepted]_vars

\* C17 witness: a queue was handed over after StopFinalizerThread returned;
\* its epoch was neither accepted nor reported.
StoppedDropsTasksWitness ==
    /\ fp.stop = "returned"
    /\ fp.droppedAfterStop
    /\ fp.handed > fp.accepted
    /\ fp.handed > fp.done
    /\ fp.thread = "none"

\* The node a returned header pointer refers to.
NodeRefFrom(n) ==
    IF header[n].isArray THEN NodeRefFromArray(header[n].ptr)
                         ELSE NodeRefFromObject(header[n].ptr)

\* C18: for every live node with a header returned by CreateObject or
\* CreateArray, NodeRef::From of the header refers to that node and to no
\* other, and GetObjHeader / GetArrayHeader of it is the header again;
\* FromData(Data()) is the node itself; no step changes the address or the
\* header of a node that stays live, wherever the node is chained.
StableIdentity ==
    /\ [](\A n \in Nodes : (nodeState[n] = "live" /\ header[n].ptr # Null) =>
            /\ NodeRefFrom(n) = address[n]
            /\ \A k \in Nodes \ {n} : nodeState[k] = "live" => address[k] # NodeRefFrom(n)
            /\ header[n].ptr = IF header[n].isArray THEN GetArrayHeader(NodeRefFrom(n))
                                                    ELSE GetObjHeader(NodeRefFrom(n)))
    /\ [](\A n \in Nodes : nodeState[n] = "live" =>
            NodeFromData(NodeData(address[n])) = address[n])
    /\ [][\A n \in Nodes : (nodeState[n] = "live" /\ nodeState'[n] = "live") =>
            (address'[n] = address[n] /\ header'[n] = header[n])]_vars

\* C18 witness: an array that went from its producer to the registry, to the
\* sweep queue and to the finalizer queue, after another node was erased.
StableIdentityWitness ==
    \E n \in Nodes :
        /\ nodeState[n] = "live"
        /\ header[n].isArray
        /\ n \in ChainNodes(consumer["finalizerQueue_"], next_)
        /\ \E k \in Nodes : nodeState[k] = "freed" /\ header[k].ptr # Null

\* C19, as stated: for every array type and every 32-bit count the data size
\* computed for the node is AlignUp(sizeof(HeapArrayHeader) + s * count,
\* kObjectAlignment) with the exact product s * count.
ArraySizeExact ==
    req.instanceSize # 0 => req.allocSize = ExactArrayDataSize(req.instanceSize, req.count)

\* C20: the object or array a CreateObject or CreateArray call returns is
\* white when the call returns, in whatever phase the collector is.
NewObjectsWhite ==
    [][\A m \in Mutators : (CreateObject(m) \/ CreateArray(m)) =>
            /\ color'[FreshNode(nodeState)] = "kWhite"
            /\ header'[FreshNode(nodeState)].ptr # Null]_vars

\* C20 witness: while the collector walks the registry, a mutator holds an
\* array it created after the mark; the array is white.
NewObjectsWhiteWitness ==
    /\ phase = "sweeping"
    /\ gcLog.visited # {}
    /\ \E n \in ProducerNodes :
        /\ n \notin gcLog.snapshot
        /\ n \notin gcLog.reach
        /\ header[n].isArray
        /\ color[n] = "kWhite"

\* C22, as stated: on every platform and for every answer of the platform
\* queries Konan_Platform_availableProcessors returns at least 1.
AvailableProcessorsPositive ==
    cpu.platform # "none" => cpu.result >= 1

\* C27, as stated: on Windows, when GetProcessAffinityMask succeeds with a
\* non-zero process affinity mask, the result is the population count of the
\* process affinity mask.
WindowsCountsProcessMask ==
    (cpu.platform = "KONAN_WINDOWS" /\ cpu.ok /\ cpu.processMask # 0) =>
        cpu.result = PopCount(cpu.processMask)

\* C23: Producer::Insert leaves the registry and its lock as they are, puts
\* the new node at the tail of the producer's own chain with size_ one more,
\* and can be called whoever holds the lock; the registry iterator never
\* stands on a node that is still in a producer.
InsertIsLocal ==
    /\ [][\A m \in Mutators : Insert(m) =>
            /\ UNCHANGED <<storage, mutex_, handles, iter, consumer>>
            /\ producer'[m].size_ = producer[m].size_ + 1
            /\ producer'[m].last_ = FreshNode(nodeState)
            /\ ChainSeq(producer'[m], next_') =
                    Append(ChainSeq(producer[m], next_), FreshNode(nodeState))
            /\ ChainSeq(storage, next_') = ChainSeq(storage, next_)
            /\ \A o \in Mutators \ {m} : producer'[o] = producer[o]]_vars
    /\ [](\A m \in Mutators :
            (pcP[m] = "idle" /\ \E k \in Nodes : nodeState[k] = "unallocated") =>
                ENABLED Insert(m))
    /\ [](ProducerNodes \cap ({iter.node_, iter.previousNode_} \cup ChainNodes(storage, next_)) = {})

\* C23 witness: a node was inserted behind another while an Iterable holds the
\* lock and its iterator stands on a registry node.
InsertIsLocalWitness ==
    /\ lastOp = "Insert"
    /\ handles > 0
    /\ mutex_ # "free"
    /\ iter.node_ # Null
    /\ \E m \in Mutators : producer[m].size_ = 2

\* C25: between operations every producer chain and every consumer chain is
\* well-formed (root_, last_ and size_ agree, last_ has no next_, size_ is the
\* length of the chain), and the consumer a MergeWith, a move construction or
\* a move assignment took from is left empty.
ChainsWellFormed ==
    /\ [](\A m \in Mutators : pcP[m] = "idle" => WellFormed(producer[m], next_))
    /\ [](\A c \in Consumers : WellFormed(consumer[c], next_))
    /\ [][\A dst \in Consumers : \A src \in Consumers :
            (MergeInto(dst, src) \/ MoveConstruct(dst, src) \/ MoveAssign(dst, src)) =>
                consumer'[src] = EmptyChain]_vars

\* C25 witness: a move assignment gave a consumer two nodes and freed the
\* node it held before.
ChainsWellFormedWitness ==
    /\ lastOp = "operator="
    /\ \E c \in Consumers : consumer[c].size_ = 2
    /\ \E n \in Nodes : nodeState[n] = "freed"

\* C26: MergeWith leaves the receiver with its chain followed by other's
\* chain, size_ the sum, last_ the last_ of other, and other empty; with an
\* empty other the receiver and the links are unchanged.
MergeAppends ==
    [][\A dst \in Consumers : \A src \in Consumers : MergeInto(dst, src) =>
        LET mine == ChainSeq(consumer[dst], next_)
            theirs == ChainSeq(consumer[src], next_)
        IN  /\ ChainSeq(consumer'[dst], next_') = mine \o theirs
            /\ consumer'[dst].size_ = consumer[dst].size_ + consumer[src].size_
            /\ theirs # <<>> => consumer'[dst].last_ = consumer[src].last_
            /\ consumer'[src] = EmptyChain
            /\ theirs = <<>> => (consumer'[dst] = consumer[dst] /\ next_' = next_)]_vars

\* C26 witness: a MergeWith of a consumer holding one node with a consumer
\* holding two.
MergeAppendsWitness ==
    /\ lastOp = "MergeWith"
    /\ Len(pubPre.R) = 1
    /\ Len(pubPre.P) = 2
    /\ \E c \in Consumers : ChainSeq(consumer[c], next_) = pubPre.R \o pubPre.P

\* C24: a black object is in the registry, unvisited, during a cycle between
\* its mark and the end of its sweep; so every object a completed sweep pass
\* visited and kept is white, and when a mark starts no object of the
\* registry or of a producer is black.
SweepRepaints ==
    /\ \A n \in LiveNodes : color[n] = "kBlack" =>
            /\ phase \in {"marked", "sweeping"}
            /\ n \in ChainNodes(storage, next_)
            /\ n \notin gcLog.visited
    /\ phase = "finalizing" =>
            \A n \in gcLog.visited \cap ChainNodes(storage, next_) : color[n] = "kWhite"
    /\ phase \in {"idle", "initiating"} =>
            \A n \in ChainNodes(storage, next_) \cup ProducerNodes : color[n] = "kWhite"

\* C24 witness: the sweep pass is over; an object the mark reached was
\* visited, kept in the registry and is white again.
SweepRepaintsWitness ==
    /\ phase = "finalizing"
    /\ \E n \in gcLog.visited \cap gcLog.reach :
            /\ n \in ChainNodes(storage, next_)
            /\ color[n] = "kWhite"

====
